---- MODULE Spec2Model ----
(***************************************************************************)
(* EmoRecCloud, src/main.py: the segmentation-and-annotation pipeline      *)
(* (process_audio_file), its tag parsing, the files it keeps in            *)
(* RESULTS_FOLDER, and the /recognize handler that runs it.                *)
(*                                                                         *)
(* A Python str is a sequence of one-character strings.  What a            *)
(* collaborator (VAD, ASR, emotion classifier) returns is determined by    *)
(* the audio it is given, so an audio file carries those answers.          *)
(***************************************************************************)
EXTENDS Integers, Sequences, FiniteSets, TLC

VARIABLES
    uploads,    \* UPLOAD_FOLDER: file name -> audio
    dir,        \* RESULTS_FOLDER: file name -> content
    run,        \* per worker thread: the locals of recognize_file / process_audio_file
    pending,    \* /recognize requests still to arrive
    raw,        \* a function on its own: its input (a RawAnnotation; the
                \* arguments of extract_segment) ...
    parsed      \* ... and what the code makes of it

vars == <<uploads, dir, run, pending, raw, parsed>>

\* ------------------------------------------------------------------ bounds

\* VAD ranges per audio file
MaxRanges == 2

\* chunks a generated RawAnnotation is glued from
MaxChunks == 5

\* /recognize requests per behaviour
MaxRuns == 1

\* samples of an audio buffer given to extract_segment
MaxSamples == 3

\* numerators of the times given to extract_segment: -MaxTime..MaxTime
MaxTime == 5

\* sample rates given to extract_segment: 1..MaxRate
MaxRate == 3

\* /recognize requests handled one after the other
MaxSeqRuns == 2

\* /upload requests handled one after the other
MaxUploads == 2

\* ------------------------------------------------------------------ str

\* the first index at which sep occurs in s, 0 if none (str.find, 1-based)
RECURSIVE FindFrom(_, _, _)
FindFrom(s, sep, k) ==
    IF k + Len(sep) - 1 > Len(s) THEN 0
    ELSE IF SubSeq(s, k, k + Len(sep) - 1) = sep THEN k
    ELSE FindFrom(s, sep, k + 1)

Find(s, sep) == FindFrom(s, sep, 1)

\* sep in s
Contains(s, sep) == Find(s, sep) # 0

\* s.split(sep): the pieces between the non-overlapping occurrences, left to right
RECURSIVE Split(_, _)
Split(s, sep) ==
    LET k == Find(s, sep) IN
    IF k = 0 THEN <<s>>
    ELSE <<SubSeq(s, 1, k - 1)>> \o Split(SubSeq(s, k + Len(sep), Len(s)), sep)

Whitespace == {" ", "\n", "\t"}

RECURSIVE LStrip(_)
LStrip(s) ==
    IF s # <<>> /\ Head(s) \in Whitespace THEN LStrip(Tail(s)) ELSE s

RECURSIVE RStrip(_)
RStrip(s) ==
    IF s # <<>> /\ s[Len(s)] \in Whitespace THEN RStrip(SubSeq(s, 1, Len(s) - 1)) ELSE s

\* s.strip()
Strip(s) == RStrip(LStrip(s))

RECURSIVE Concat(_)
Concat(ss) == IF ss = <<>> THEN <<>> ELSE Head(ss) \o Concat(Tail(ss))

\* ------------------------------------------------------------------ tag parsing

OpenMarker == <<"<", "|">>
CloseMarker == <<"|", ">">>

\* lines 85-89: the fields of text_content
RECURSIVE FieldsOf(_)
FieldsOf(parts) ==
    IF parts = <<>> THEN <<>>
    ELSE IF Contains(Head(parts), CloseMarker)
         THEN <<Strip(Split(Head(parts), CloseMarker)[1])>> \o FieldsOf(Tail(parts))
         ELSE FieldsOf(Tail(parts))

extracted_info(text_content) == FieldsOf(Split(text_content, OpenMarker))

\* line 91: how many fields a record needs
MinFields == 4

\* line 96: text_content.split('|>')[-1].strip()
text_of(text_content) ==
    LET pieces == Split(text_content, CloseMarker) IN Strip(pieces[Len(pieces)])

NoRecord == <<>>

\* result_dict with the second field taken as the audio type
result_dict_wrong_field(text_content, best_emotion) ==
    LET info == extracted_info(text_content) IN
    IF Len(info) >= MinFields
    THEN <<( "Language" :> info[1] @@ "Emotion" :> best_emotion @@
             "Audio Type" :> info[2] @@ "Text" :> text_of(text_content) )>>
    ELSE NoRecord

\* lines 91-104: the records (none or one) that a transcript adds to results
result_dict(text_content, best_emotion) ==
    LET info == extracted_info(text_content) IN
    IF Len(info) >= MinFields
    THEN <<( "Language" :> info[1] @@ "Emotion" :> best_emotion @@
             "Audio Type" :> info[3] @@ "Text" :> text_of(text_content) )>>
    ELSE NoRecord

\* ------------------------------------------------------------------ inputs of tag parsing

S_EN == <<"E", "N">>
S_happy == <<"h", "a", "p", "p", "y">>
S_speech == <<"s", "p", "e", "e", "c", "h">>
S_withitn == <<"w", "i", "t", "h", "i", "t", "n">>
S_hello == <<"h", "e", "l", "l", "o">>
S_angry == <<"a", "n", "g", "r", "y">>
S_sad == <<"s", "a", "d">>
S_none == <<>>

Tag(s) == OpenMarker \o s \o CloseMarker

\* '<|EN|><|happy|><|speech|><|withitn|>hello'
T_good == Tag(S_EN) \o Tag(S_happy) \o Tag(S_speech) \o Tag(S_withitn) \o S_hello

\* '<|EN|><|happy|>'
T_two == Tag(S_EN) \o Tag(S_happy)

Chunks ==
    { Tag(S_EN), Tag(<<" ", "s", " ">>), OpenMarker, CloseMarker, <<" ">>, <<"h", "i">> }

RECURSIVE ChunkSeqs(_)
ChunkSeqs(n) ==
    IF n = 0 THEN {<<>>}
    ELSE LET shorter == ChunkSeqs(n - 1) IN
         shorter \cup { Append(cs, c) : cs \in {x \in shorter : Len(x) = n - 1}, c \in Chunks }

Transcripts == { Concat(cs) : cs \in ChunkSeqs(MaxChunks) } \cup {T_good, T_two}

NotParsed == [done |-> FALSE, out |-> NoRecord]

\* ------------------------------------------------------------------ collaborators

\* labels of the emotion classifier, index-aligned with its scores
Labels == <<S_angry, S_happy, S_sad>>

EmoRaise == [ok |-> FALSE, labels |-> <<>>, scores |-> <<>>]
Emo(scores) == [ok |-> TRUE, labels |-> Labels, scores |-> scores]

\* what asr_pipeline returns: it raises, or returns something that is no list, or a
\* list of dicts that may lack the "text" key
AsrRaise == [kind |-> "raise", items |-> <<>>]
AsrNone == [kind |-> "none", items |-> <<>>]
AsrEmpty == [kind |-> "list", items |-> <<>>]
AsrNoText == [kind |-> "list", items |-> <<[has_text |-> FALSE, text |-> S_none]>>]
AsrText(t) == [kind |-> "list", items |-> <<[has_text |-> TRUE, text |-> t]>>]

\* the audio of one range, by what the collaborators answer on it
Sounds ==
    { [asr |-> a, emo |-> Emo(<<7, 2, 1>>)] : a \in {AsrRaise, AsrNone, AsrEmpty} }
    \cup { [asr |-> AsrNoText, emo |-> Emo(<<1, 2, 7>>)],
           [asr |-> AsrText(S_none), emo |-> EmoRaise],
           [asr |-> AsrText(T_two), emo |-> Emo(<<1, 2, 7>>)] }
    \cup { [asr |-> AsrText(T_good), emo |-> e] :
               e \in {Emo(<<7, 2, 1>>), Emo(<<4, 4, 2>>), Emo(<<2, 4, 4>>), EmoRaise} }

NoSound == [asr |-> AsrRaise, emo |-> EmoRaise]

SampleRate == 16000

\* the k-th range VAD reports, in samples: seconds 4k-3 to 4k-1
RangeAt(k, sound) ==
    [start |-> (4 * k - 3) * SampleRate, end |-> (4 * k - 1) * SampleRate, sound |-> sound]

RECURSIVE SoundSeqs(_)
SoundSeqs(n) ==
    IF n = 0 THEN {<<>>}
    ELSE LET shorter == SoundSeqs(n - 1) IN
         shorter \cup { Append(ss, s) : ss \in {x \in shorter : Len(x) = n - 1}, s \in Sounds }

Ranges(ss) == [k \in 1..Len(ss) |-> RangeAt(k, ss[k])]

\* an audio file: whether read_audio decodes it, what emotion_pipeline answers on
\* the whole file, and the ranges get_speech_ts finds
Audios ==
    { [decodes |-> TRUE, overall |-> o, vad |-> Ranges(ss)] :
          o \in {Emo(<<4, 4, 2>>), Emo(<<1, 2, 7>>)}, ss \in SoundSeqs(MaxRanges) }
    \cup { [decodes |-> d, overall |-> EmoRaise, vad |-> <<>>] : d \in BOOLEAN }
    \cup { [decodes |-> FALSE, overall |-> Emo(<<4, 4, 2>>), vad |-> <<>>] }

\* ------------------------------------------------------------------ files

\* a file name: stem, then (for a segment file) ordinal and times, then extension
FileName(stem, seg, from, to, ext) ==
    [stem |-> stem, seg |-> seg, from |-> from, to |-> to, ext |-> ext]

PlainName(stem, ext) == FileName(stem, 0, 0, 0, ext)

\* line 106: 'output_results.json'
OutputName == PlainName("output_results", "json")

\* '{:.2f}' of samples / 16000, in hundredths of a second (the ranges of this
\* model fall on whole seconds)
Hundredths(samples) == (samples * 100 + SampleRate \div 2) \div SampleRate

\* os.path.splitext(os.path.basename(audio_file))[0]
stem_of(audio_file) == audio_file.stem

\* lines 69-73: segment_path of the i-th (from 0) range of audio_file
segment_path(audio_file, i, segment) ==
    FileName(stem_of(audio_file), i + 1, Hundredths(segment.start),
             Hundredths(segment.end), "wav")

\* what a file of RESULTS_FOLDER holds: JSON text (valid, or cut short) that
\* carries records, or audio, or something else
JsonFile(valid, recs) == [kind |-> "json", valid |-> valid, recs |-> recs, sound |-> NoSound]
AudioFile(sound) == [kind |-> "audio", valid |-> TRUE, recs |-> <<>>, sound |-> sound]
OtherFile == [kind |-> "other", valid |-> TRUE, recs |-> <<>>, sound |-> NoSound]

\* line 71: segment_audio, the audio of a range, as far as the collaborators can
\* tell it from other audio
segment_audio(segment) == segment.sound

Put(d, name, content) == [f \in DOMAIN d \cup {name} |-> IF f = name THEN content ELSE d[f]]
Drop(d, name) == [f \in DOMAIN d \ {name} |-> d[f]]

\* line 112, with every file of the folder matching
cleanup_matches_all(file) == TRUE

\* line 112: file.endswith('.wav') and file != 'output_results.json'
cleanup_matches(file) == file.ext = "wav" /\ file # OutputName

\* ------------------------------------------------------------------ label selection

RECURSIVE MaxOf(_)
MaxOf(xs) ==
    IF Len(xs) = 1 THEN xs[1]
    ELSE LET m == MaxOf(Tail(xs)) IN IF Head(xs) >= m THEN Head(xs) ELSE m

\* list.index(v): the first position holding v
RECURSIVE IndexFrom(_, _, _)
IndexFrom(xs, v, k) == IF xs[k] = v THEN k ELSE IndexFrom(xs, v, k + 1)

\* the last position holding the maximum
RECURSIVE LastIndexFrom(_, _, _)
LastIndexFrom(xs, v, k) == IF xs[k] = v THEN k ELSE LastIndexFrom(xs, v, k - 1)

best_label_index_last(scores) == LastIndexFrom(scores, MaxOf(scores), Len(scores))

\* lines 56, 82: scores.index(max(scores))
best_label_index(scores) == IndexFrom(scores, MaxOf(scores), 1)

\* lines 57, 83
best_emotion(rec_result) == rec_result.labels[best_label_index(rec_result.scores)]

\* lines 52, 60-62, with the overall record left out
initial_results_none(label) == <<>>

\* lines 52, 60-62: results once the overall emotion is appended
initial_results(label) == << ("Overall Emotion" :> label) >>

\* line 77: isinstance(asr_result, list) and len(asr_result) > 0
asr_usable(asr_result) == asr_result.kind = "list" /\ Len(asr_result.items) > 0

\* lines 78-79: asr_result[0].get("text", "")
text_content_of(asr_result) ==
    LET result == asr_result.items[1] IN IF result.has_text THEN result.text ELSE S_none

\* line 104, putting the record first
append_record_first(results, records) == records \o results

\* line 104: results.append(result_dict), when there is one
append_record(results, records) == results \o records

\* ------------------------------------------------------------------ a worker thread

NoName == PlainName("", "")

Idle ==
    [pc |-> "idle", response |-> 0, raised |-> "", audio_file |-> NoName,
     results |-> <<>>, vad_segments |-> <<>>, i |-> 0, segment_path |-> NoName,
     text_content |-> S_none, best_emotion |-> S_none, todo |-> {},
     entry |-> << >>]

\* an exception leaves process_audio_file and the handler: the server answers 500
Raise(r, site) == [r EXCEPT !.pc = "responded", !.response = 500, !.raised = site]

\* line 68: the head of the loop over vad_segments
LoopHead_once(r) ==
    [r EXCEPT !.pc = IF r.i < Len(r.vad_segments) /\ r.i < 1 THEN "save" ELSE "open"]

LoopHead(r) == [r EXCEPT !.pc = IF r.i < Len(r.vad_segments) THEN "save" ELSE "open"]

NextRange(r) == LoopHead([r EXCEPT !.i = r.i + 1])

\* a range without a usable transcript raises instead of being passed over
skip_segment_raises(r) == Raise(r, "asr_pipeline")

\* line 77 has no else: a range without a usable transcript is passed over
skip_segment(r) == NextRange(r)

\* the names a /recognize request may carry
UploadNames == { PlainName("a", "wav"), PlainName("b", "wav") }
RequestNames == UploadNames \cup {NoName}

\* lines 142-153: /recognize, up to the call of process_audio_file
Recognize(t) ==
    /\ pending > 0
    /\ run[t].pc = "idle"
    /\ pending' = pending - 1
    /\ \E filename \in RequestNames :
         run' = [run EXCEPT ![t] =
                   IF filename = NoName
                   THEN [@ EXCEPT !.pc = "responded", !.response = 400]
                   ELSE IF filename \notin DOMAIN uploads
                   THEN [@ EXCEPT !.pc = "responded", !.response = 404]
                   ELSE [@ EXCEPT !.pc = "overall", !.audio_file = filename,
                                  !.entry = dir]]
    /\ UNCHANGED <<uploads, dir, raw, parsed>>

\* lines 52-62: the overall emotion, first in results
OverallEmotion(t) ==
    /\ run[t].pc = "overall"
    /\ LET r == run[t]
           rec == IF r.audio_file \in DOMAIN uploads
                  THEN uploads[r.audio_file].overall ELSE EmoRaise
       IN  run' = [run EXCEPT ![t] =
                     IF ~rec.ok THEN Raise(r, "emotion_pipeline")
                     ELSE [r EXCEPT !.pc = "read",
                                    !.results = initial_results(best_emotion(rec))]]
    /\ UNCHANGED <<uploads, dir, pending, raw, parsed>>

decode_failed_swallowed(r) == LoopHead([r EXCEPT !.vad_segments = <<>>, !.i = 0])

\* line 65: read_audio raises on a file it cannot decode, nothing catches it
decode_failed(r) == Raise(r, "read_audio")

\* lines 65-66: read_audio and get_speech_ts
ReadAudio(t) ==
    /\ run[t].pc = "read"
    /\ LET r == run[t]
           decodes == r.audio_file \in DOMAIN uploads /\ uploads[r.audio_file].decodes
       IN  run' = [run EXCEPT ![t] =
                     IF ~decodes THEN decode_failed(r)
                     ELSE LoopHead([r EXCEPT !.vad_segments = uploads[r.audio_file].vad,
                                             !.i = 0])]
    /\ UNCHANGED <<uploads, dir, pending, raw, parsed>>

\* lines 69-74: the segment of range i is written to segment_path
SaveSegment(t) ==
    /\ run[t].pc = "save"
    /\ LET r == run[t]
           segment == r.vad_segments[r.i + 1]
           path == segment_path(r.audio_file, r.i, segment)
       IN  /\ dir' = Put(dir, path, AudioFile(segment_audio(segment)))
           /\ run' = [run EXCEPT ![t] = [r EXCEPT !.pc = "asr", !.segment_path = path]]
    /\ UNCHANGED <<uploads, pending, raw, parsed>>

\* lines 76-79: asr_pipeline on the segment file
Asr(t) ==
    /\ run[t].pc = "asr"
    /\ LET r == run[t]
           asr_result == IF r.segment_path \in DOMAIN dir
                         THEN dir[r.segment_path].sound.asr ELSE AsrRaise
       IN  run' = [run EXCEPT ![t] =
                     IF asr_result.kind = "raise" THEN Raise(r, "asr_pipeline")
                     ELSE IF asr_usable(asr_result)
                     THEN [r EXCEPT !.pc = "emotion",
                                    !.text_content = text_content_of(asr_result)]
                     ELSE skip_segment(r)]
    /\ UNCHANGED <<uploads, dir, pending, raw, parsed>>

\* lines 81-83: emotion_pipeline on the segment file
SegmentEmotion(t) ==
    /\ run[t].pc = "emotion"
    /\ LET r == run[t]
           rec_result == IF r.segment_path \in DOMAIN dir
                         THEN dir[r.segment_path].sound.emo ELSE EmoRaise
       IN  run' = [run EXCEPT ![t] =
                     IF ~rec_result.ok THEN Raise(r, "emotion_pipeline")
                     ELSE [r EXCEPT !.pc = "parse",
                                    !.best_emotion = best_emotion(rec_result)]]
    /\ UNCHANGED <<uploads, dir, pending, raw, parsed>>

\* lines 85-104: the tags are parsed and the record, if any, appended
ParseAppend(t) ==
    /\ run[t].pc = "parse"
    /\ LET r == run[t] IN
       run' = [run EXCEPT ![t] =
                 NextRange([r EXCEPT !.results =
                     append_record(r.results, result_dict(r.text_content, r.best_emotion))])]
    /\ UNCHANGED <<uploads, dir, pending, raw, parsed>>

\* line 107: open(result_file_path, 'w') truncates the file, or fails
OpenOutput(t) ==
    /\ run[t].pc = "open"
    /\ \E opened \in BOOLEAN :
         IF opened
         THEN /\ dir' = Put(dir, OutputName, JsonFile(FALSE, <<>>))
              /\ run' = [run EXCEPT ![t].pc = "dump"]
         ELSE /\ dir' = dir
              /\ run' = [run EXCEPT ![t] = Raise(@, "open")]
    /\ UNCHANGED <<uploads, pending, raw, parsed>>

\* line 108: json.dump writes results and the file is closed, or the write fails
\* after some of the records
Dump(t) ==
    /\ run[t].pc = "dump"
    /\ LET r == run[t] IN
       \E written \in 0..Len(r.results) :
         IF written = Len(r.results)
         THEN /\ dir' = Put(dir, OutputName, JsonFile(TRUE, r.results))
              /\ run' = [run EXCEPT ![t].pc = "listdir"]
         ELSE /\ dir' = Put(dir, OutputName, JsonFile(FALSE, SubSeq(r.results, 1, written)))
              /\ run' = [run EXCEPT ![t] = Raise(r, "json.dump")]
    /\ UNCHANGED <<uploads, pending, raw, parsed>>

\* the handler returns 200 (line 154)
Completed(r) == [r EXCEPT !.pc = "responded", !.response = 200]

\* line 111-112: os.listdir, and which of the files the loop will remove
ListDir(t) ==
    /\ run[t].pc = "listdir"
    /\ LET r == run[t]
           todo == { file \in DOMAIN dir : cleanup_matches(file) }
       IN  run' = [run EXCEPT ![t] =
                     IF todo = {} THEN Completed(r)
                     ELSE [r EXCEPT !.pc = "remove", !.todo = todo]]
    /\ UNCHANGED <<uploads, dir, pending, raw, parsed>>

removed_returns(r, file) == Completed([r EXCEPT !.todo = {}])

\* line 111: after a removal the loop goes on to the next listed file, and
\* past the last one the function returns
removed(r, file) ==
    IF r.todo = {file} THEN Completed([r EXCEPT !.todo = {}])
    ELSE [r EXCEPT !.todo = r.todo \ {file}]

\* line 113: os.remove of the next listed file (os.listdir gives no order); it
\* raises when the file is gone or cannot be removed
Remove(t) ==
    /\ run[t].pc = "remove"
    /\ LET r == run[t] IN
       \E file \in r.todo, removable \in BOOLEAN :
         IF file \in DOMAIN dir /\ removable
         THEN /\ dir' = Drop(dir, file)
              /\ run' = [run EXCEPT ![t] = removed(r, file)]
         ELSE /\ dir' = dir
              /\ run' = [run EXCEPT ![t] = Raise(r, "os.remove")]
    /\ UNCHANGED <<uploads, pending, raw, parsed>>

\* the response is sent; the thread is free for the next request
Return(t) ==
    /\ run[t].pc = "responded"
    /\ run' = [run EXCEPT ![t] = Idle]
    /\ UNCHANGED <<uploads, dir, pending, raw, parsed>>

process_audio_file(t) ==
    \/ OverallEmotion(t)
    \/ ReadAudio(t)
    \/ SaveSegment(t)
    \/ Asr(t)
    \/ SegmentEmotion(t)
    \/ ParseAppend(t)
    \/ OpenOutput(t)
    \/ Dump(t)
    \/ ListDir(t)
    \/ Remove(t)

\* ------------------------------------------------------------------ specifications

\* RESULTS_FOLDER when the server starts: just made (line 22), or left by earlier
\* use with an earlier result and files of other origin
OldResults == << ("Overall Emotion" :> S_sad) >>

FreshDir == << >>

UsedDir ==
    (OutputName :> JsonFile(TRUE, OldResults))
    @@ (PlainName("notes", "txt") :> OtherFile)
    @@ (PlainName("stray", "wav") :> AudioFile(NoSound))

\* one worker thread (requests are handled one after the other), one uploaded file
Init ==
    /\ \E audio \in Audios : uploads = (PlainName("a", "wav") :> audio)
    /\ dir \in {FreshDir, UsedDir}
    /\ run = (1 :> Idle)
    /\ pending = MaxRuns
    /\ raw = S_none
    /\ parsed = NotParsed

\* what a worker thread does: lines 142-154
recognize_file(t) == Recognize(t) \/ process_audio_file(t) \/ Return(t)

Next == recognize_file(1)

Spec == Init /\ [][Next]_vars

\* tag parsing on its own
ParseTags ==
    /\ ~parsed.done
    /\ parsed' = [done |-> TRUE, out |-> result_dict(raw, S_angry)]
    /\ UNCHANGED <<uploads, dir, run, pending, raw>>

InitParse ==
    /\ uploads = << >>
    /\ dir = FreshDir
    /\ run = (1 :> Idle)
    /\ pending = 0
    /\ raw \in Transcripts
    /\ parsed = NotParsed

SpecParse == InitParse /\ [][ParseTags]_vars

\* two worker threads (the development server handles requests in threads), two
\* uploaded files with one range of speech each, and a request for each thread
SpeechAudio(overall, segment) ==
    [decodes |-> TRUE, overall |-> Emo(overall),
     vad |-> Ranges(<<[asr |-> AsrText(T_good), emo |-> Emo(segment)]>>)]

InitConc ==
    /\ uploads = (PlainName("a", "wav") :> SpeechAudio(<<4, 4, 2>>, <<7, 2, 1>>))
                 @@ (PlainName("b", "wav") :> SpeechAudio(<<1, 2, 7>>, <<2, 4, 4>>))
    /\ dir = FreshDir
    /\ run = (1 :> Idle) @@ (2 :> Idle)
    /\ pending = 2
    /\ raw = S_none
    /\ parsed = NotParsed

NextConc == recognize_file(1) \/ recognize_file(2)

SpecConc == InitConc /\ [][NextConc]_vars

\* one worker thread handling several requests one after the other, on two
\* uploaded files: a.wav has two ranges of speech, b.wav one or none
InitRuns ==
    /\ \E few \in {<<>>, <<[asr |-> AsrText(T_two), emo |-> Emo(<<2, 4, 4>>)]>>} :
         uploads = (PlainName("a", "wav") :>
                        [decodes |-> TRUE, overall |-> Emo(<<4, 4, 2>>),
                         vad |-> Ranges(<<[asr |-> AsrText(T_good), emo |-> Emo(<<7, 2, 1>>)],
                                          [asr |-> AsrText(T_two), emo |-> Emo(<<1, 2, 7>>)]>>)])
                   @@ (PlainName("b", "wav") :>
                        [decodes |-> TRUE, overall |-> Emo(<<1, 2, 7>>), vad |-> Ranges(few)])
    /\ dir \in {FreshDir, UsedDir}
    /\ run = (1 :> Idle)
    /\ pending = MaxSeqRuns
    /\ raw = S_none
    /\ parsed = NotParsed

SpecRuns == InitRuns /\ [][Next]_vars

\* ------------------------------------------------------------------ upload_file

\* a subdirectory of UPLOAD_FOLDER: os.path.isfile is false for it
Directory == [decodes |-> FALSE, overall |-> EmoRaise, vad |-> <<>>, isdir |-> TRUE]

\* line 120
isfile(d, file) == file \in DOMAIN d /\ d[file] # Directory

\* a POST to /upload: whether it has a 'file' part, and the part's filename and
\* content
NoFilePart == [has_file |-> FALSE, filename |-> NoName, audio |-> Directory]

UploadedAudios == {SpeechAudio(<<4, 4, 2>>, <<7, 2, 1>>), SpeechAudio(<<4, 4, 2>>, <<1, 2, 7>>)}

UploadRequests ==
    {NoFilePart}
    \cup { [has_file |-> TRUE, filename |-> n, audio |-> a] :
               n \in RequestNames, a \in UploadedAudios }

\* line 118: os.listdir(UPLOAD_FOLDER)
Upload(t) ==
    /\ pending > 0
    /\ run[t].pc = "idle"
    /\ pending' = pending - 1
    /\ run' = [run EXCEPT ![t] = [@ EXCEPT !.pc = "clear", !.todo = DOMAIN uploads]]
    /\ UNCHANGED <<uploads, dir, raw, parsed>>

cleared_nothing(d, file) == d

\* line 121
cleared(d, file) == Drop(d, file)

\* lines 118-121: the next listed entry, removed if it is a regular file;
\* os.remove raises when the file cannot be removed
ClearUploads(t) ==
    /\ run[t].pc = "clear"
    /\ run[t].todo # {}
    /\ LET r == run[t] IN
       \E file \in r.todo, removable \in BOOLEAN :
         IF isfile(uploads, file) /\ ~removable
         THEN /\ uploads' = uploads
              /\ run' = [run EXCEPT ![t] = Raise(r, "os.remove")]
         ELSE /\ uploads' = IF isfile(uploads, file) THEN cleared(uploads, file) ELSE uploads
              /\ run' = [run EXCEPT ![t] = [r EXCEPT !.todo = r.todo \ {file}]]
    /\ UNCHANGED <<dir, pending, raw, parsed>>

\* lines 123-134: the request is rejected, or its file saved under its filename
SaveUpload(t) ==
    /\ run[t].pc = "clear"
    /\ run[t].todo = {}
    /\ LET r == run[t] IN
       \E request \in UploadRequests :
         IF ~request.has_file \/ request.filename = NoName
         THEN /\ uploads' = uploads
              /\ run' = [run EXCEPT ![t] = [r EXCEPT !.pc = "responded", !.response = 400]]
         ELSE /\ uploads' = Put(uploads, request.filename, request.audio)
              /\ run' = [run EXCEPT ![t] = [r EXCEPT !.pc = "responded", !.response = 200,
                                                     !.audio_file = request.filename]]
    /\ UNCHANGED <<dir, pending, raw, parsed>>

upload_file(t) == Upload(t) \/ ClearUploads(t) \/ SaveUpload(t) \/ Return(t)

\* /upload requests handled one after the other; UPLOAD_FOLDER may exist
\* before the program starts (line 17), with whatever it holds
InitUpload ==
    /\ \E names \in SUBSET UploadNames, sub \in BOOLEAN :
         uploads = [n \in names \cup (IF sub THEN {PlainName("sub", "")} ELSE {}) |->
                        IF n \in names THEN SpeechAudio(<<1, 2, 7>>, <<2, 4, 4>>) ELSE Directory]
    /\ dir = FreshDir
    /\ run = (1 :> Idle)
    /\ pending = MaxUploads
    /\ raw = S_none
    /\ parsed = NotParsed

NextUpload == upload_file(1)

SpecUpload == InitUpload /\ [][NextUpload]_vars

\* a /recognize request in one worker thread while another handles /upload
\* requests (the development server handles requests in threads)
InitRace ==
    /\ uploads = (PlainName("a", "wav") :> SpeechAudio(<<1, 2, 7>>, <<2, 4, 4>>))
    /\ dir = FreshDir
    /\ run = (1 :> Idle) @@ (2 :> Idle)
    /\ pending = 2
    /\ raw = S_none
    /\ parsed = NotParsed

NextRace == recognize_file(1) \/ upload_file(2)

SpecRace == InitRace /\ [][NextRace]_vars

\* ------------------------------------------------------------------ extract_segment

\* a time in seconds is a float; the times of this model are num/den with den a
\* power of two, and small, so that time * sample_rate is computed exactly
Times == { [num |-> n, den |-> d] : n \in (0 - MaxTime)..MaxTime, d \in {1, 4} }

\* int(x) of x = p/q, q > 0: towards zero
int(p, q) == IF p >= 0 THEN p \div q ELSE 0 - ((0 - p) \div q)

\* lines 46-47: int(time * sample_rate)
sample_of(time, sample_rate) == int(time.num * sample_rate, time.den)

\* a slice bound as Python places it in a buffer of n samples: a negative one
\* counts from the end, and the result is kept within 0..n
slice_bound(k, n) ==
    LET j == IF k < 0 THEN k + n ELSE k IN
    IF j < 0 THEN 0 ELSE IF j > n THEN n ELSE j

\* line 48: audio[start_sample:end_sample]; index 0 of the buffer is audio[1] here
slice(audio, start_sample, end_sample) ==
    LET lo == slice_bound(start_sample, Len(audio))
        hi == slice_bound(end_sample, Len(audio))
    IN  IF lo < hi THEN SubSeq(audio, lo + 1, hi) ELSE <<>>

\* lines 45-49
extract_segment(audio, start_time, end_time, sample_rate) ==
    LET start_sample == sample_of(start_time, sample_rate)
        end_sample == sample_of(end_time, sample_rate)
    IN  [start_sample |-> start_sample, end_sample |-> end_sample,
         segment |-> slice(audio, start_sample, end_sample)]

\* a buffer of n samples, each telling its index
Buffer(n) == [k \in 1..n |-> k - 1]

ExtractSegment ==
    /\ ~parsed.done
    /\ parsed' = [done |-> TRUE,
                  out |-> extract_segment(raw.audio, raw.start_time, raw.end_time,
                                          raw.sample_rate)]
    /\ UNCHANGED <<uploads, dir, run, pending, raw>>

InitExtract ==
    /\ uploads = << >>
    /\ dir = FreshDir
    /\ run = (1 :> Idle)
    /\ pending = 0
    /\ raw \in { [audio |-> Buffer(n), start_time |-> a, end_time |-> b, sample_rate |-> sr] :
                     n \in 0..MaxSamples, a \in Times, b \in Times, sr \in 1..MaxRate }
    /\ parsed = NotParsed

SpecExtract == InitExtract /\ [][ExtractSegment]_vars

\* ------------------------------------------------------------------ what the claims speak of

\* a run of process_audio_file that completed: the handler answered 200
CompletedRun(r) == r.pc = "responded" /\ r.response = 200

\* a run of process_audio_file that failed: an exception left it
FailedRun(r) == r.pc = "responded" /\ r.response = 500

InCleanup(r) == r.pc \in {"listdir", "remove"}

\* the artifact as a reader of output_results.json finds it
Persisted == dir[OutputName].recs

\* the label at the first index holding the maximum score, stated without search
FirstMaxLabel(rec) ==
    LET k == CHOOSE n \in 1..Len(rec.scores) :
                 /\ \A j \in 1..Len(rec.scores) : rec.scores[j] <= rec.scores[n]
                 /\ \A j \in 1..(n - 1) : rec.scores[j] < rec.scores[n]
    IN  rec.labels[k]

\* a range whose transcript is usable and parses to at least 4 fields
Qualifies(segment) ==
    LET a == segment.sound.asr IN
    /\ a.kind = "list"
    /\ a.items # <<>>
    /\ a.items[1].has_text
    /\ Len(extracted_info(a.items[1].text)) >= 4

\* a range for which the Speech Annotator gives no usable transcript
NoTranscript(segment) ==
    LET a == segment.sound.asr IN
    \/ a.kind = "none"
    \/ a.kind = "list" /\ a.items = <<>>
    \/ a.kind = "list" /\ a.items # <<>> /\ ~a.items[1].has_text
    \/ a.kind = "list" /\ a.items # <<>> /\ a.items[1].has_text /\ a.items[1].text = S_none

\* the AnnotatedSegment of a qualifying range
SegmentRecord(segment) ==
    result_dict(segment.sound.asr.items[1].text, best_emotion(segment.sound.emo))[1]

RECURSIVE Emitted(_)
Emitted(segments) ==
    IF segments = <<>> THEN <<>>
    ELSE IF Qualifies(Head(segments))
         THEN <<SegmentRecord(Head(segments))>> \o Emitted(Tail(segments))
         ELSE Emitted(Tail(segments))

\* the segment files a run has created so far
Created(r) ==
    { segment_path(r.audio_file, k - 1, r.vad_segments[k]) :
          k \in { n \in 1..Len(r.vad_segments) : n <= r.i + 1 } }

\* the text after the last '|>' of s, without the whitespace around it
AfterLastClose(s) ==
    LET at == { k \in 1..(Len(s) - 1) : s[k] = "|" /\ s[k + 1] = ">" }
        last == CHOOSE k \in at : \A j \in at : j <= k
    IN  IF at = {} THEN s ELSE SubSeq(s, last + 2, Len(s))

Trimmed(s) ==
    LET ink == { k \in 1..Len(s) : s[k] \notin Whitespace }
        lo == CHOOSE k \in ink : \A j \in ink : k <= j
        hi == CHOOSE k \in ink : \A j \in ink : j <= k
    IN  IF ink = {} THEN <<>> ELSE SubSeq(s, lo, hi)

\* ------------------------------------------------------------------ claims

\* C1: when process_audio_file completes, output_results.json holds a non-empty
\* ResultSequence whose element 0 is the Overall Emotion record, whatever the
\* number of VAD ranges (zero included) and of skipped segments.
C1_OverallEmotionFirst ==
    \A t \in DOMAIN run :
        CompletedRun(run[t]) =>
            /\ OutputName \in DOMAIN dir
            /\ dir[OutputName].valid
            /\ Len(Persisted) >= 1
            /\ DOMAIN Persisted[1] = {"Overall Emotion"}
            /\ \E k \in 1..Len(Labels) : Persisted[1]["Overall Emotion"] = Labels[k]

\* a run on audio without any range completed, and the artifact is one record long
C1_Witness ==
    /\ CompletedRun(run[1])
    /\ run[1].vad_segments = <<>>
    /\ Len(Persisted) = 1

\* C2: in a completed run, elements 1..N of the ResultSequence are exactly the
\* records of the ranges whose transcript is usable and parses to at least 4
\* fields, one per such range, in the order VAD returned the ranges.
C2_SegmentsInVadOrder ==
    \A t \in DOMAIN run :
        CompletedRun(run[t]) =>
            /\ Len(Persisted) = 1 + Len(Emitted(run[t].vad_segments))
            /\ SubSeq(Persisted, 2, Len(Persisted)) = Emitted(run[t].vad_segments)

\* a completed run of two qualifying ranges with different records
C2_Witness ==
    /\ CompletedRun(run[1])
    /\ Len(run[1].vad_segments) = 2
    /\ Len(Persisted) = 3
    /\ Persisted[2] # Persisted[3]
    /\ Persisted[2] = SegmentRecord(run[1].vad_segments[1])
    /\ Persisted[3] = SegmentRecord(run[1].vad_segments[2])

\* C3: tag parsing: with fewer than 4 extracted fields there is no record;
\* otherwise the record has language = field[0], audio type = field[2] and text =
\* the trimmed text after the last '|>' of the original string; '<|EN|><|happy|>'
\* gives no record, '<|EN|><|happy|><|speech|><|withitn|>hello' gives
\* EN / speech / hello.
C3_TagParsing ==
    parsed.done =>
        LET info == extracted_info(raw)
            out == parsed.out
        IN  /\ Len(info) < 4 => out = NoRecord
            /\ Len(info) >= 4 =>
                   /\ Len(out) = 1
                   /\ out[1]["Language"] = info[1]
                   /\ out[1]["Audio Type"] = info[3]
                   /\ out[1]["Text"] = Trimmed(AfterLastClose(raw))
            /\ raw = T_two => out = NoRecord
            /\ raw = T_good =>
                   /\ Len(out) = 1
                   /\ out[1]["Language"] = S_EN
                   /\ out[1]["Audio Type"] = S_speech
                   /\ out[1]["Text"] = S_hello

\* a generated annotation of four fields, the third with blanks around it, was
\* parsed into a record
C3_Witness ==
    /\ parsed.done
    /\ raw = Tag(S_EN) \o Tag(S_EN) \o Tag(<<" ", "s", " ">>) \o Tag(S_EN) \o <<"h", "i">>
    /\ Len(parsed.out) = 1
    /\ parsed.out[1]["Audio Type"] = <<"s">>
    /\ parsed.out[1]["Text"] = <<"h", "i">>

C5_FailedRunLeavesArtifact ==
    \A t \in DOMAIN run :
        FailedRun(run[t]) =>
            /\ (OutputName \in DOMAIN dir) = (OutputName \in DOMAIN run[t].entry)
            /\ OutputName \in DOMAIN dir => dir[OutputName] = run[t].entry[OutputName]

\* C6, as claimed: when a run has ended, completed or failed, no segment file it
\* created is left in RESULTS_FOLDER.
C6_NoArtifactOutlivesRun ==
    \A t \in DOMAIN run :
        run[t].pc = "responded" => Created(run[t]) \cap DOMAIN dir = {}

\* C7, as claimed: the cleanup phase removes only segment files the current run
\* created and leaves every other file as it is.
C7_CleanupOnlyOwnArtifacts ==
    [][ \A t \in DOMAIN run :
          InCleanup(run[t]) =>
              /\ \A file \in DOMAIN dir \ DOMAIN dir' : file \in Created(run[t])
              /\ \A file \in DOMAIN dir \cap DOMAIN dir' : dir'[file] = dir[file] ]_vars

\* C7, amended: the cleanup phase removes only files whose name ends in '.wav'
\* (segment files of the run or not), and leaves output_results.json and every
\* file of another extension as it is.
C7_CleanupOnlyWavFiles ==
    [][ \A t \in DOMAIN run :
          InCleanup(run[t]) =>
              /\ \A file \in DOMAIN dir \ DOMAIN dir' : file.ext = "wav" /\ file # OutputName
              /\ DOMAIN dir' \subseteq DOMAIN dir
              /\ \A file \in DOMAIN dir' : dir'[file] = dir[file] ]_vars

\* a run with a segment file completed in a folder that held another .wav file
\* and a text file: the .wav files are gone, the text file and the artifact stay
C7_Witness ==
    /\ CompletedRun(run[1])
    /\ Len(run[1].vad_segments) >= 1
    /\ PlainName("stray", "wav") \in DOMAIN run[1].entry
    /\ PlainName("stray", "wav") \notin DOMAIN dir
    /\ PlainName("notes", "txt") \in DOMAIN dir
    /\ dir[PlainName("notes", "txt")] = run[1].entry[PlainName("notes", "txt")]
    /\ dir[OutputName] = JsonFile(TRUE, run[1].results)

\* C8, as claimed: a failure to delete a file during cleanup does not fail the
\* run.
C8_CleanupErrorNotFatal ==
    \A t \in DOMAIN run : FailedRun(run[t]) => run[t].raised # "os.remove"

\* C9, as claimed: with two runs executing concurrently, a segment file a run is
\* using is neither deleted nor overwritten by the other run, and the two runs
\* never have output_results.json open for writing at the same time.
C9_ExclusiveScratch ==
    /\ \A t \in DOMAIN run :
          run[t].pc \in {"asr", "emotion"} =>
              /\ run[t].segment_path \in DOMAIN dir
              /\ dir[run[t].segment_path] =
                     AudioFile(segment_audio(run[t].vad_segments[run[t].i + 1]))
    /\ ~(\A t \in DOMAIN run : run[t].pc = "dump")

\* C10: the Emotion of every AnnotatedSegment is the label at the first index
\* holding the maximum score of the per-segment emotion call, whatever the tags
\* of the transcript say; the Overall Emotion is chosen by the same rule from the
\* whole-file call.
C10_EmotionFromAnnotator ==
    \A t \in DOMAIN run :
        CompletedRun(run[t]) =>
            LET segments == SelectSeq(run[t].vad_segments, Qualifies) IN
            /\ Persisted[1]["Overall Emotion"] = FirstMaxLabel(uploads[run[t].audio_file].overall)
            /\ Len(Persisted) = 1 + Len(segments)
            /\ \A k \in 1..Len(segments) :
                   Persisted[k + 1]["Emotion"] = FirstMaxLabel(segments[k].sound.emo)

\* a completed run whose record carries 'angry', chosen on a tie of the first two
\* scores, while the transcript's own second tag says 'happy'
C10_Witness ==
    /\ CompletedRun(run[1])
    /\ Len(run[1].vad_segments) = 1
    /\ Qualifies(run[1].vad_segments[1])
    /\ run[1].vad_segments[1].sound.emo.scores = <<4, 4, 2>>
    /\ extracted_info(run[1].text_content)[2] = S_happy
    /\ Len(Persisted) = 2
    /\ Persisted[2]["Emotion"] = S_angry

\* C11, as claimed: for any range, extract_segment returns exactly the samples
\* at the indices from max(0, start_sample) up to, not including,
\* min(end_sample, buffer length).
C11_ExtractClamps ==
    parsed.done =>
        LET n == Len(raw.audio)
            lo == IF parsed.out.start_sample < 0 THEN 0 ELSE parsed.out.start_sample
            hi == IF parsed.out.end_sample > n THEN n ELSE parsed.out.end_sample
        IN  /\ Len(parsed.out.segment) = (IF lo < hi THEN hi - lo ELSE 0)
            /\ \A k \in 1..Len(parsed.out.segment) : parsed.out.segment[k] = lo + k - 1

\* C17, as claimed: for non-negative times, start_sample and end_sample are the
\* integers nearest to time * sample_rate, and the result is the half-open
\* slice from start_sample to end_sample.
C17_SamplesAreRounded ==
    (parsed.done /\ raw.start_time.num >= 0 /\ raw.end_time.num >= 0) =>
        LET s == parsed.out.start_sample
            e == parsed.out.end_sample
            Near(k, t) ==
                LET d == k * t.den - t.num * raw.sample_rate IN
                2 * (IF d < 0 THEN 0 - d ELSE d) <= t.den
        IN  /\ Near(s, raw.start_time)
            /\ Near(e, raw.end_time)
            /\ \A k \in 1..Len(parsed.out.segment) :
                   /\ parsed.out.segment[k] = s + k - 1
                   /\ parsed.out.segment[k] < e

\* C12: a run on a file that cannot be decoded aborts with no partial output:
\* it gets no further than the decoding, it ends as a failure, and all along
\* the scratch directory is as the run found it, the artifact neither written
\* nor modified and no segment file created.
C12_DecodeFailureNoOutput ==
    \A t \in DOMAIN run :
        LET r == run[t] IN
        (r.pc # "idle" /\ r.response # 400 /\ r.response # 404
            /\ r.audio_file \in DOMAIN uploads /\ ~uploads[r.audio_file].decodes) =>
            /\ r.pc \in {"overall", "read", "responded"}
            /\ r.pc = "responded" => FailedRun(r)
            /\ dir = r.entry
            /\ \A k \in 1..MaxRanges, sound \in Sounds :
                   segment_path(r.audio_file, k - 1, RangeAt(k, sound)) \notin DOMAIN dir

C12_Witness ==
    /\ FailedRun(run[1])
    /\ run[1].raised = "read_audio"
    /\ ~uploads[run[1].audio_file].decodes
    /\ OutputName \in DOMAIN dir
    /\ dir[OutputName] = JsonFile(TRUE, OldResults)

\* C13: cleanup is idempotent: once a run has completed its cleanup, a second
\* cleanup pass finds no file to remove in the scratch directory, so it would
\* remove nothing and leave the artifact, which is there as the run wrote it,
\* untouched.
C13_CleanupIdempotent ==
    \A t \in DOMAIN run :
        CompletedRun(run[t]) =>
            /\ { file \in DOMAIN dir : cleanup_matches(file) } = {}
            /\ OutputName \in DOMAIN dir
            /\ dir[OutputName] = JsonFile(TRUE, run[t].results)

\* a completed cleanup that had two files to remove
C13_Witness ==
    /\ CompletedRun(run[1])
    /\ Cardinality(Created(run[1]) \cup { file \in DOMAIN run[1].entry : cleanup_matches(file) }) >= 2
    /\ Len(run[1].vad_segments) >= 1

\* C16, as claimed: the tag parsing comes before the per-segment emotion call:
\* the call is made only for a transcript the parser accepts (four fields or
\* more), and a failure of that call aborts a run only at a range that would
\* have been emitted.
C16_ParseBeforeEmotion ==
    \A t \in DOMAIN run :
        LET r == run[t] IN
        /\ r.pc = "emotion" => Len(extracted_info(r.text_content)) >= MinFields
        /\ (FailedRun(r) /\ r.raised = "emotion_pipeline" /\ r.i < Len(r.vad_segments)) =>
               Qualifies(r.vad_segments[r.i + 1])

\* the ResultSequence of an audio file: its overall emotion, then the records
\* of its qualifying ranges in order
ResultSequence(audio) ==
    <<("Overall Emotion" :> FirstMaxLabel(audio.overall))>> \o Emitted(audio.vad)

\* the artifact, if there is one
Artifact(d) == IF OutputName \in DOMAIN d THEN <<d[OutputName]>> ELSE <<>>

\* C14: a completed run writes the artifact once, after the last range, and
\* by overwriting: the artifact changes only in the write that follows the
\* loop, and when a run has completed, whatever ran before it, the artifact
\* is the ResultSequence of that run and nothing more.
C14_ArtifactOfLastRun ==
    /\ [](\A t \in DOMAIN run :
             CompletedRun(run[t]) =>
                 Artifact(dir) = <<JsonFile(TRUE, ResultSequence(uploads[run[t].audio_file]))>>)
    /\ [][\A t \in DOMAIN run :
             Artifact(dir') # Artifact(dir) =>
                 /\ run[t].pc \in {"open", "dump"}
                 /\ run[t].i = Len(run[t].vad_segments)
                 /\ run'[t].pc \in {"dump", "listdir", "responded"}]_vars

\* a second completed run whose shorter ResultSequence took the place of the
\* longer one the first run had written
C14_Witness ==
    /\ CompletedRun(run[1])
    /\ pending = 0
    /\ Artifact(run[1].entry) = <<JsonFile(TRUE, ResultSequence(uploads[PlainName("a", "wav")]))>>
    /\ run[1].audio_file = PlainName("b", "wav")
    /\ Len(dir[OutputName].recs) < Len(run[1].entry[OutputName].recs)

\* the regular files of the upload folder
RegularFiles == { file \in DOMAIN uploads : isfile(uploads, file) }

\* C18: /upload requests handled one after the other: every request that is
\* answered (200 or 400; an os.remove that raises ends the request with
\* nothing saved) has first removed all regular files of the upload folder, also
\* when it is rejected with 400, and a successful one has then saved exactly
\* the uploaded file, so that at most one regular file is left; what is not a
\* regular file stays.
C18_AtMostOneUpload ==
    \A t \in DOMAIN run :
        LET r == run[t] IN
        /\ (r.pc = "clear" /\ r.todo = {}) => RegularFiles = {}
        /\ (r.pc = "responded" /\ r.response = 400) => RegularFiles = {}
        /\ (r.pc = "responded" /\ r.response = 200) =>
               /\ RegularFiles = {r.audio_file}
               /\ uploads[r.audio_file] \in UploadedAudios
        /\ (r.pc = "responded" /\ r.response \in {200, 400}) => Cardinality(RegularFiles) <= 1
        /\ (r.pc = "responded" /\ r.response = 500) =>
               (r.raised = "os.remove" /\ RegularFiles \subseteq r.todo)

\* the second of two uploads, answered 200: its file is the only regular file
\* left, next to a subdirectory
C18_Witness ==
    /\ pending = 0
    /\ run[1].pc = "responded"
    /\ run[1].response = 200
    /\ run[1].audio_file = PlainName("b", "wav")
    /\ PlainName("sub", "") \in DOMAIN uploads
    /\ RegularFiles = {PlainName("b", "wav")}

\* C15, as claimed: a /recognize request naming a file that is not in the
\* upload folder is answered with an error and the pipeline has not run; and
\* the file a run was started on is still in the upload folder when the run
\* comes to use it (the overall emotion call, the decoding), also with /upload
\* requests handled in between.
C15_PathExistsDuringRun ==
    LET r == run[1] IN
    /\ (r.pc = "responded" /\ r.response \in {400, 404}) =>
           (r.results = <<>> /\ r.vad_segments = <<>>)
    /\ r.pc \in {"overall", "read"} => r.audio_file \in DOMAIN uploads
====
